---- MODULE Spec2Model ----
(***************************************************************************)
(* NekoImageGallery: the admin controller (delete / update_opt / upload /  *)
(* server_info) and the search controller (text / image / similar /        *)
(* advanced / random), over the vector index, the storage backend and the  *)
(* asynchronous indexing queue they talk to.                               *)
(*                                                                         *)
(* Spec is the admin controller serving its requests one at a time, with   *)
(* the indexing worker running beside it; FairSpec adds the worker's        *)
(* fairness.  ConcSpec is the admin controller with requests in flight:     *)
(* uploads and updates are split where they await a collaborator.           *)
(* SearchSpec is the search controller.                                     *)
(***************************************************************************)
EXTENDS Integers, Sequences, FiniteSets, TLC

VARIABLES
    index,   \* the vector index: a function id -> stored payload
    files,   \* the storage backend: the set of stored file paths
    queue,   \* the indexing queue of the upload service
    cfg,     \* config.ocr_search.enable, config.storage.method.enabled
    last,    \* the request the latest step served, and its response
    pending  \* the requests in flight: each waits for a collaborator's answer

vars == <<index, files, queue, cfg, last, pending>>

----------------------------------------------------------------------------
(* Bounds of the model *)

\* uploads are accepted by the model while the queue holds fewer entries
MaxQueue == 2

\* requests are taken by the model while fewer are in flight
MaxTasks == 2

----------------------------------------------------------------------------
(* Values *)

\* Python's Optional: None is <<>>, a present value v is <<v>>
None == <<>>
Some(v) == <<v>>
Get(o) == o[1]

\* Byte strings a client uploads: an image PIL can open, and bytes that are
\* no image
ImageBytes == {"img"}
JunkBytes == {"junk"}
Bytes == ImageBytes \cup JunkBytes

\* PIL.Image.open succeeds (no UnidentifiedImageError) exactly on image bytes
Decodable(b) == b \in ImageBytes

\* app.util.generate_uuid: a deterministic id of the bytes, distinct bytes
\* giving distinct ids
generate_uuid(b) == <<"uuid", b>>

\* the ids a client names in a path
Ids == {generate_uuid(b) : b \in Bytes}

\* declared content types and file names a client sends
ContentTypes == {"IMAGE/PNG", "text/plain"}
Filenames == {"", "a.GIF", "a.txt"}

\* str.lower() on the strings of the model
Lower(s) ==
    CASE s = "IMAGE/PNG" -> "image/png"
      [] s = ".GIF" -> ".gif"
      [] OTHER -> s

\* PurePath(filename).suffix
Suffix(filename) ==
    CASE filename = "a.GIF" -> ".GIF"
      [] filename = "a.txt" -> ".txt"
      [] OTHER -> ""

\* extension[1:]
DropDot(extension) ==
    CASE extension = ".jpg" -> "jpg"
      [] extension = ".png" -> "png"
      [] extension = ".jpeg" -> "jpeg"
      [] extension = ".jfif" -> "jfif"
      [] extension = ".webp" -> "webp"
      [] extension = ".gif" -> "gif"
      [] OTHER -> extension

IMAGE_MIMES ==
    [m \in {"image/jpeg", "image/png", "image/webp", "image/gif"} |->
        CASE m = "image/jpeg" -> "jpeg"
          [] m = "image/png" -> "png"
          [] m = "image/webp" -> "webp"
          [] m = "image/gif" -> "gif"]

ImageExtensions == {".jpg", ".png", ".jpeg", ".jfif", ".webp", ".gif"}

\* UploadImageModel: the query parameters of an upload
UploadModels ==
    { [local |-> TRUE,  thumbnail_url |-> None,      starred |-> FALSE,
       categories |-> <<"cat">>, skip_ocr |-> FALSE],
      [local |-> FALSE, thumbnail_url |-> Some("t"), starred |-> FALSE,
       categories |-> <<"cat">>, skip_ocr |-> TRUE],
      [local |-> TRUE,  thumbnail_url |-> Some("t"), starred |-> FALSE,
       categories |-> <<"cat">>, skip_ocr |-> FALSE] }

\* ImageOptUpdateModel: the body of an update_opt
UpdateModels ==
    { [starred |-> None,        categories |-> None],
      [starred |-> Some(TRUE),  categories |-> None],
      [starred |-> None,        categories |-> Some(<<"dog">>)] }

\* file paths of the storage backend: directory / stem . ext
Path(dir, stem, ext) == [dir |-> dir, stem |-> stem, ext |-> ext]

----------------------------------------------------------------------------
(* Collaborators: vector index *)

\* db_context.validate_ids: the subset of ids that exist
validate_ids(idx, ids) == ids \cap DOMAIN idx

\* db_context.retrieve_by_id raises PointNotFoundError on an absent id
PointNotFound(idx, id) == id \notin DOMAIN idx

\* db_context.deleteItems
deleteItems(idx, ids) == [i \in (DOMAIN idx) \ ids |-> idx[i]]

\* db_context.updatePayload: writes the payload of point id
updatePayload(idx, id, point) == [i \in DOMAIN idx |-> IF i = id THEN point ELSE idx[i]]

\* db_context.get_counts(exact=True)
get_counts(idx) == Cardinality(DOMAIN idx)

(* Collaborators: storage backend *)

\* active_storage.list_files("", f"{id}.*"): the files of the storage root
\* whose name is the id followed by any extension
list_files(fs, dir, stem) == {f \in fs : f.dir = dir /\ f.stem = stem}

\* active_storage.move(f, f"_deleted/{f.name}")
move(fs, f, dir) == (fs \ {f}) \cup {Path(dir, f.stem, f.ext)}

\* active_storage.is_exist / delete
is_exist(fs, f) == f \in fs
delete(fs, f) == fs \ {f}

\* no request is in flight
NoTasks == <<>>

\* `last` when the latest step served no request
NoRequest ==
    [op |-> "none", req |-> <<>>, status |-> 0, id |-> <<>>, error |-> "",
     calls |-> <<>>, info |-> <<>>, query |-> <<>>, found |-> <<>>, result |-> <<>>]

\* `last` holds one response at a time: the next step of a request is taken
\* when the response before has been sent.
Ready == last = NoRequest

\* the response has been sent
Return ==
    /\ last # NoRequest
    /\ last' = NoRequest
    /\ UNCHANGED <<index, files, queue, cfg, pending>>

(* Collaborators: upload service *)

\* upload_service.upload_image(image, image_data, img_bytes, skip_ocr):
\* puts the record on the indexing queue and returns
enqueue(q, image_data, skip_ocr) == Append(q, [data |-> image_data, skip_ocr |-> skip_ocr])

\* upload_service.get_queue_size()
get_queue_size(q) == Len(q)

\* the payload the index stores for a record
Payload(image_data) ==
    [local |-> image_data.local, thumbnail_url |-> image_data.thumbnail_url,
     starred |-> image_data.starred, categories |-> image_data.categories]

\* the files the indexing worker stores for a record: the original of a local
\* image as <id>.<format>, and its thumbnail when it makes one
StoredFiles(image_data, thumb) ==
    IF image_data.local /\ cfg.storage_enabled
    THEN {Path("", image_data.id, image_data.format)}
         \cup (IF thumb THEN {Path("thumbnails", image_data.id, "webp")} ELSE {})
    ELSE {}

\* The indexing worker takes the oldest queue entry, stores the files of a
\* local image (it may make a thumbnail for one that came without) and
\* inserts the record into the index.
IndexWorker ==
    /\ queue # <<>>
    /\ \E thumb \in BOOLEAN :
         LET data == Head(queue).data
             makes == /\ thumb /\ data.local /\ cfg.storage_enabled
                      /\ data.thumbnail_url = None
             stored == [Payload(data) EXCEPT !.thumbnail_url =
                            IF makes THEN Some("t") ELSE @]
         IN  /\ thumb => makes
             /\ index' = [i \in DOMAIN index \cup {data.id} |->
                            IF i = data.id THEN stored ELSE index[i]]
             /\ files' = files \cup StoredFiles(data, makes)
    /\ queue' = Tail(queue)
    /\ last' = NoRequest
    /\ UNCHANGED <<cfg, pending>>

----------------------------------------------------------------------------
(* Responses *)

\* The response of a request: the HTTP status, the id it carries (the
\* image_id of an upload's answer, the entity id of a 409's detail), the
\* exception that escaped the handler, if any, and the collaborator calls the
\* handler made, in order.
Response(status, id, error, calls) ==
    [status |-> status, id |-> id, error |-> error, calls |-> calls]

\* `last` after operation op answered request req with resp
Served(op, req, resp) ==
    [op |-> op, req |-> req, status |-> resp.status, id |-> resp.id, error |-> resp.error,
     calls |-> resp.calls, info |-> <<>>, query |-> None, found |-> <<>>, result |-> <<>>]

----------------------------------------------------------------------------
(* admin.py: upload *)

\* lines 94-100: the image type from the content type, else from the
\* file name's extension, else None
ResolveFormat(content_type, filename) ==
    IF Lower(content_type) \in DOMAIN IMAGE_MIMES
    THEN Some(IMAGE_MIMES[Lower(content_type)])
    ELSE IF filename # "" /\ Lower(Suffix(filename)) \in ImageExtensions
         THEN Some(DropDot(Lower(Suffix(filename))))
         ELSE None

\* lines 113-120: the record an accepted upload hands to the upload service
ImageData(img_id, img_type, model) ==
    [id |-> img_id, local |-> model.local, thumbnail_url |-> model.thumbnail_url,
     categories |-> model.categories, starred |-> model.starred, format |-> img_type]

\* an upload that raises HTTPException(status), after the calls made
Rejected(status, id, calls) ==
    [resp |-> Response(status, id, "", calls), enqueue |-> None]

\* an upload that enqueues its record and answers with the id
Accepted(img_id, img_type, model, calls) ==
    [resp |-> Response(200, Some(img_id), "", calls),
     enqueue |-> Some(ImageData(img_id, img_type, model))]

\* upload_image that never looks for the id in the index
UploadOutcome_noDupCheck(idx, image_file, model) ==
    LET img_type == ResolveFormat(image_file.content_type, image_file.filename)
        img_id == generate_uuid(image_file.bytes)
    IN  IF img_type = None THEN Rejected(415, None, <<>>)
        ELSE IF ~Decodable(image_file.bytes)
        THEN Rejected(400, None, <<"read", "Image.open">>)
        ELSE Accepted(img_id, Get(img_type), model,
                      <<"read", "Image.open", "upload_image">>)

\* upload_image whose 409 does not name the id
UploadOutcome_conflictNoId(idx, image_file, model) ==
    LET img_type == ResolveFormat(image_file.content_type, image_file.filename)
        img_id == generate_uuid(image_file.bytes)
    IN  IF img_type = None THEN Rejected(415, None, <<>>)
        ELSE IF validate_ids(idx, {img_id}) # {}
        THEN Rejected(409, None, <<"read", "validate_ids">>)
        ELSE IF ~Decodable(image_file.bytes)
        THEN Rejected(400, None, <<"read", "validate_ids", "Image.open">>)
        ELSE Accepted(img_id, Get(img_type), model,
                      <<"read", "validate_ids", "Image.open", "upload_image">>)

\* upload_image that opens the image before it resolves the format
UploadOutcome_decodeFirst(idx, image_file, model) ==
    LET img_type == ResolveFormat(image_file.content_type, image_file.filename)
        img_id == generate_uuid(image_file.bytes)
    IN  IF ~Decodable(image_file.bytes)
        THEN Rejected(400, None, <<"read", "Image.open">>)
        ELSE IF img_type = None THEN Rejected(415, None, <<"read", "Image.open">>)
        ELSE IF validate_ids(idx, {img_id}) # {}
        THEN Rejected(409, Some(img_id), <<"read", "Image.open", "validate_ids">>)
        ELSE Accepted(img_id, Get(img_type), model,
                      <<"read", "Image.open", "validate_ids", "upload_image">>)

\* upload_image that answers an accepted upload without enqueuing it
UploadOutcome_noEnqueue(idx, image_file, model) ==
    LET img_type == ResolveFormat(image_file.content_type, image_file.filename)
        img_id == generate_uuid(image_file.bytes)
    IN  IF img_type = None THEN Rejected(415, None, <<>>)
        ELSE IF validate_ids(idx, {img_id}) # {}
        THEN Rejected(409, Some(img_id), <<"read", "validate_ids">>)
        ELSE IF ~Decodable(image_file.bytes)
        THEN Rejected(400, None, <<"read", "validate_ids", "Image.open">>)
        ELSE [resp |-> Response(200, Some(img_id), "",
                                <<"read", "validate_ids", "Image.open">>),
              enqueue |-> None]

\* upload_image that also refuses an id that waits in the indexing queue or
\* belongs to an upload in flight
UploadOutcome_serialized(idx, image_file, model) ==
    LET img_type == ResolveFormat(image_file.content_type, image_file.filename)
        img_id == generate_uuid(image_file.bytes)
        taken == DOMAIN idx \cup {queue[i].data.id : i \in DOMAIN queue}
                 \cup {Get(pending[t].out.enqueue).id :
                          t \in {u \in DOMAIN pending : pending[u].op = "upload"}}
    IN  IF img_type = None THEN Rejected(415, None, <<>>)
        ELSE IF img_id \in taken
        THEN Rejected(409, Some(img_id), <<"read", "validate_ids">>)
        ELSE IF ~Decodable(image_file.bytes)
        THEN Rejected(400, None, <<"read", "validate_ids", "Image.open">>)
        ELSE Accepted(img_id, Get(img_type), model,
                      <<"read", "validate_ids", "Image.open", "upload_image">>)

\* upload_image that hands the record to the upload service before it opens
\* the image
UploadOutcome_enqueueUndecoded(idx, image_file, model) ==
    LET img_type == ResolveFormat(image_file.content_type, image_file.filename)
        img_id == generate_uuid(image_file.bytes)
    IN  IF img_type = None THEN Rejected(415, None, <<>>)
        ELSE IF validate_ids(idx, {img_id}) # {}
        THEN Rejected(409, Some(img_id), <<"read", "validate_ids">>)
        ELSE IF ~Decodable(image_file.bytes)
        THEN [resp |-> Response(400, None, "",
                                <<"read", "validate_ids", "upload_image", "Image.open">>),
              enqueue |-> Some(ImageData(img_id, Get(img_type), model))]
        ELSE Accepted(img_id, Get(img_type), model,
                      <<"read", "validate_ids", "upload_image", "Image.open">>)

\* lines 94-123: what upload_image answers and what it enqueues, given the
\* index it reads
UploadOutcome(idx, image_file, model) ==
    LET img_type == ResolveFormat(image_file.content_type, image_file.filename)
        img_id == generate_uuid(image_file.bytes)
    IN  IF img_type = None THEN Rejected(415, None, <<>>)
        ELSE IF validate_ids(idx, {img_id}) # {}
        THEN Rejected(409, Some(img_id), <<"read", "validate_ids">>)
        ELSE IF ~Decodable(image_file.bytes)
        THEN Rejected(400, None, <<"read", "validate_ids", "Image.open">>)
        ELSE Accepted(img_id, Get(img_type), model,
                      <<"read", "validate_ids", "Image.open", "upload_image">>)

upload_image(image_file, model) ==
    LET out == UploadOutcome(index, image_file, model)
    IN  /\ out.enqueue # None => Len(queue) < MaxQueue
        /\ queue' = IF out.enqueue # None
                    THEN enqueue(queue, Get(out.enqueue), model.skip_ocr)
                    ELSE queue
        /\ last' = Served("upload", image_file, out.resp)
        /\ UNCHANGED <<index, files, cfg, pending>>

\* UploadFile: the declared content type, the file name and the bytes (an
\* image content type comes with a file name of another image type)
UploadFiles ==
    {f \in [content_type : ContentTypes, filename : Filenames, bytes : Bytes] :
        f.content_type = "IMAGE/PNG" => f.filename = "a.GIF"}

Upload ==
    Ready /\ \E image_file \in UploadFiles, model \in UploadModels :
                upload_image(image_file, model)

----------------------------------------------------------------------------
(* admin.py: delete *)

\* A storage call of a delete may fail (the backend is unreachable or
\* errors): the request names the call that raises, if any.
StorageFaults == {"none", "list_files", "move", "is_exist", "delete"}

\* the storage part of a delete stops at a storage call that raises: the files
\* are as the calls before it left them
StorageError(fs, calls) == [files |-> fs, calls |-> calls, error |-> "StorageError"]

\* the thumbnail handling that deletes without asking whether the file is there
DeleteThumbnail_noExistCheck(fs, id, point, calls, fault) ==
    LET thumbnail_file == Path("thumbnails", id, "webp")
    IN  IF point.thumbnail_url = None
        THEN [files |-> fs, calls |-> calls, error |-> ""]
        ELSE IF fault = "delete" \/ ~is_exist(fs, thumbnail_file)
        THEN StorageError(fs, calls \o <<"delete">>)
        ELSE [files |-> delete(fs, thumbnail_file),
              calls |-> calls \o <<"delete">>, error |-> ""]

\* lines 48-54: the thumbnail of point id is deleted when it is there
DeleteThumbnail(fs, id, point, calls, fault) ==
    LET thumbnail_file == Path("thumbnails", id, "webp")
    IN  IF point.thumbnail_url = None
        THEN [files |-> fs, calls |-> calls, error |-> ""]
        ELSE IF fault = "is_exist"
        THEN StorageError(fs, calls \o <<"is_exist">>)
        ELSE IF ~is_exist(fs, thumbnail_file)
        THEN [files |-> fs, calls |-> calls \o <<"is_exist">>, error |-> ""]
        ELSE IF fault = "delete"
        THEN StorageError(fs, calls \o <<"is_exist", "delete">>)
        ELSE [files |-> delete(fs, thumbnail_file),
              calls |-> calls \o <<"is_exist", "delete">>, error |-> ""]

\* the storage part of a delete that erases the original instead of moving it
DeleteStored_erase(fs, id, point, fault) ==
    LET image_files == list_files(fs, "", id)
        f == CHOOSE x \in image_files : TRUE
    IN  IF fault = "list_files" THEN StorageError(fs, <<"list_files">>)
        ELSE IF Cardinality(image_files) > 1
        THEN [files |-> fs, calls |-> <<"list_files">>, error |-> "AssertionError"]
        ELSE IF image_files = {}
        THEN DeleteThumbnail(fs, id, point, <<"list_files">>, fault)
        ELSE DeleteThumbnail(delete(fs, f), id, point, <<"list_files", "delete">>, fault)

\* the storage part of a delete without the assertion: it moves the first match
DeleteStored_pickFirst(fs, id, point, fault) ==
    LET image_files == list_files(fs, "", id)
        f == CHOOSE x \in image_files : TRUE
    IN  IF fault = "list_files" THEN StorageError(fs, <<"list_files">>)
        ELSE IF image_files = {}
        THEN DeleteThumbnail(fs, id, point, <<"list_files">>, fault)
        ELSE IF fault = "move" THEN StorageError(fs, <<"list_files", "move">>)
        ELSE DeleteThumbnail(move(fs, f, "_deleted"), id, point,
                             <<"list_files", "move">>, fault)

\* lines 39-54: the storage part of a delete of point id; the outcome is the
\* files left, the calls made and the exception raised, if any
DeleteStored(fs, id, point, fault) ==
    LET image_files == list_files(fs, "", id)
        f == CHOOSE x \in image_files : TRUE
    IN  IF fault = "list_files" THEN StorageError(fs, <<"list_files">>)
        ELSE IF Cardinality(image_files) > 1
        THEN [files |-> fs, calls |-> <<"list_files">>, error |-> "AssertionError"]
        ELSE IF image_files = {}
        THEN DeleteThumbnail(fs, id, point, <<"list_files">>, fault)
        ELSE IF fault = "move" THEN StorageError(fs, <<"list_files", "move">>)
        ELSE DeleteThumbnail(move(fs, f, "_deleted"), id, point,
                             <<"list_files", "move">>, fault)

\* the storage part of a deleted point: only for a local image, with storage on
DeleteFiles(idx1, fs, image_id, point, calls, fault) ==
    IF point.local /\ cfg.storage_enabled
    THEN LET st == DeleteStored(fs, image_id, point, fault)
         IN  [resp |-> Response(IF st.error = "" THEN 200 ELSE 500, None,
                                st.error, calls \o st.calls),
              index |-> idx1, files |-> st.files]
    ELSE [resp |-> Response(200, None, "", calls), index |-> idx1, files |-> fs]

\* delete_image that answers success for an id that is not there
DeleteOutcome_ignoreMissing(idx, fs, image_id, fault) ==
    IF PointNotFound(idx, image_id)
    THEN [resp |-> Response(200, None, "", <<"retrieve_by_id">>),
          index |-> idx, files |-> fs]
    ELSE DeleteFiles(deleteItems(idx, {image_id}), fs, image_id, idx[image_id],
                     <<"retrieve_by_id", "deleteItems">>, fault)

\* delete_image that removes the index entry after the storage part, when
\* that went through
DeleteOutcome_storageFirst(idx, fs, image_id, fault) ==
    IF PointNotFound(idx, image_id)
    THEN [resp |-> Response(404, None, "", <<"retrieve_by_id">>),
          index |-> idx, files |-> fs]
    ELSE LET out == DeleteFiles(idx, fs, image_id, idx[image_id],
                                <<"retrieve_by_id">>, fault)
         IN  IF out.resp.error # "" THEN out
             ELSE [resp |-> Response(200, None, "", out.resp.calls \o <<"deleteItems">>),
                   index |-> deleteItems(idx, {image_id}), files |-> out.files]

\* lines 30-56
DeleteOutcome(idx, fs, image_id, fault) ==
    IF PointNotFound(idx, image_id)
    THEN [resp |-> Response(404, None, "", <<"retrieve_by_id">>),
          index |-> idx, files |-> fs]
    ELSE DeleteFiles(deleteItems(idx, {image_id}), fs, image_id, idx[image_id],
                     <<"retrieve_by_id", "deleteItems">>, fault)

delete_image(image_id, fault) ==
    LET out == DeleteOutcome(index, files, image_id, fault)
    IN  /\ index' = out.index
        /\ files' = out.files
        /\ last' = Served("delete", [id |-> image_id, fault |-> fault], out.resp)
        /\ UNCHANGED <<queue, cfg, pending>>

Delete == Ready /\ \E image_id \in Ids, fault \in StorageFaults : delete_image(image_id, fault)

----------------------------------------------------------------------------
(* admin.py: update_opt *)

\* ImageOptUpdateModel.empty(): no field of the body is set
empty(model) == model.starred = None /\ model.categories = None

\* the write of an update that looks for the entry once more and answers 404
\* when it is gone
WritePoint_recheck(idx, image_id, point, model) ==
    LET p1 == IF model.starred # None
              THEN [point EXCEPT !.starred = Get(model.starred)] ELSE point
        p2 == IF model.categories # None
              THEN [p1 EXCEPT !.categories = Get(model.categories)] ELSE p1
    IN  IF PointNotFound(idx, image_id)
        THEN [resp |-> Response(404, None, "", <<"retrieve_by_id", "retrieve_by_id">>),
              index |-> idx]
        ELSE [resp |-> Response(200, None, "", <<"retrieve_by_id", "updatePayload">>),
              index |-> updatePayload(idx, image_id, p2)]

\* lines 69-77: the fields present in the body are set on the point that was
\* retrieved, and the point is written to the index as idx holds it by then
WritePoint(idx, image_id, point, model) ==
    LET p1 == IF model.starred # None
              THEN [point EXCEPT !.starred = Get(model.starred)] ELSE point
        p2 == IF model.categories # None
              THEN [p1 EXCEPT !.categories = Get(model.categories)] ELSE p1
    IN  [resp |-> Response(200, None, "", <<"retrieve_by_id", "updatePayload">>),
         index |-> updatePayload(idx, image_id, p2)]

\* lines 65-74 with nothing in between: the point written is the one idx holds
ApplyUpdate(idx, image_id, model) == WritePoint(idx, image_id, idx[image_id], model)

\* update_image that retrieves the point before it looks at the body
UpdateOutcome_retrieveFirst(idx, image_id, model) ==
    IF PointNotFound(idx, image_id)
    THEN [resp |-> Response(404, None, "", <<"retrieve_by_id">>), index |-> idx]
    ELSE IF empty(model)
    THEN [resp |-> Response(422, None, "", <<"retrieve_by_id">>), index |-> idx]
    ELSE ApplyUpdate(idx, image_id, model)

\* lines 59-77
UpdateOutcome(idx, image_id, model) ==
    IF empty(model)
    THEN [resp |-> Response(422, None, "", <<>>), index |-> idx]
    ELSE IF PointNotFound(idx, image_id)
    THEN [resp |-> Response(404, None, "", <<"retrieve_by_id">>), index |-> idx]
    ELSE ApplyUpdate(idx, image_id, model)

update_image(image_id, model) ==
    LET out == UpdateOutcome(index, image_id, model)
    IN  /\ index' = out.index
        /\ last' = Served("update_opt", [id |-> image_id, model |-> model], out.resp)
        /\ UNCHANGED <<files, queue, cfg, pending>>

Update == Ready /\ \E image_id \in Ids, model \in UpdateModels : update_image(image_id, model)

----------------------------------------------------------------------------
(* admin.py: server_info *)

\* lines 126-130
ServerInfo ==
    /\ Ready
    /\ last' = [Served("server_info", <<>>,
                       Response(200, None, "", <<"get_counts", "get_queue_size">>))
                EXCEPT !.info = <<get_counts(index), get_queue_size(queue)>>]
    /\ UNCHANGED <<index, files, queue, cfg, pending>>

----------------------------------------------------------------------------
(* search.py *)

SearchBasisEnum == {"vision", "ocr", "combined"}
SearchModelEnum == {"average", "best"}

\* SearchPagingParams: count in 1..100 and skip >= 0, checked by the framework
PagingParams == {[count |-> 1, skip |-> 0], [count |-> 3, skip |-> 1]}

Prompts == {"cat"}

\* AdvancedSearchModel: the body of an advanced search
AdvancedSearchModels ==
    [criteria : {<<>>, <<"cat">>}, negative_criteria : {<<>>, <<"dog">>},
     mode : SearchModelEnum, combined_priority : {None, Some("vision"), Some("ocr")},
     extra_prompt : {None, Some("outdoor")}]

\* SearchBasisParams that rejects basis ocr only
SearchBasisParams_ocrOnly(basis) ==
    IF basis = "ocr" /\ ~cfg.ocr_enable THEN Some(400) ELSE None

\* lines 32-40: the HTTPException SearchBasisParams raises, if any
SearchBasisParams(basis) ==
    IF basis = "ocr" /\ ~cfg.ocr_enable THEN Some(400)
    ELSE IF basis = "combined" /\ ~cfg.ocr_enable THEN Some(400)
    ELSE None

\* db_context.getVectorByBasis: the vector field of a basis
getVectorByBasis(basis) ==
    CASE basis = "vision" -> "image_vector"
      [] basis = "ocr" -> "text_contain_vector"
      [] OTHER -> basis

\* Embedding vectors: a vector is one of six unit directions of the plane, 60
\* degrees apart, so that every cosine is a multiple of one half.
Vectors == 0 .. 5

\* transformers_service.get_text_vector / get_bert_vector: the vision-aligned
\* and the OCR-aligned text encoder; they embed a text into different spaces
get_text_vector(t) == IF t = "outdoor" THEN 0 ELSE 2
get_bert_vector(t) == IF t = "outdoor" THEN 1 ELSE 3

\* Numbers are fixed-point, counted in halves: 2 is 1.0, 1 is 0.5.
\* calculate_vectors_cosine: the cosine of the angle between two directions
calculate_vectors_cosine(a, b) == <<2, 1, -1, -2, -1, 1>>[((a - b) % 6) + 1]

\* the product of two fixed-point numbers
Times(x, y) == (x * y) \div 2

\* What the index holds of a record it returns: the relevance score of the
\* query (1.0 or -1.0) and the record's embeddings, of which the image
\* embedding may be missing
ItemKinds ==
    [score : {-2, 2}, image_vector : {Some(0), Some(1), None},
     text_contain_vector : {Some(2)}]

\* SearchResult: the i-th result of a query is the record of id i
SearchResults(kinds) ==
    [i \in DOMAIN kinds |->
        [id |-> i, score |-> kinds[i].score, image_vector |-> kinds[i].image_vector,
         text_contain_vector |-> kinds[i].text_contain_vector]]

\* db_context.querySearch / querySimilar / queryAdvanced: the index answers a
\* query with at most top_k results
IndexAnswers(top_k) ==
    UNION {{SearchResults(kinds) : kinds \in [1 .. n -> ItemKinds]} : n \in 0 .. top_k}

\* the query a handler hands to the index
Query(fn, vector_name, top_k, skip, mode) ==
    Some([fn |-> fn, vector_name |-> vector_name, top_k |-> top_k, skip |-> skip,
          mode |-> mode])

\* `last` after search operation op answered req with resp, having issued
\* query, to which the index answered found, and returning result
Searched(op, req, resp, query, found, result) ==
    [Served(op, req, resp) EXCEPT !.query = query, !.found = found, !.result = result]

\* lines 43-57
textSearch(prompt, basis, paging) ==
    /\ IF SearchBasisParams(basis) # None
       THEN last' = Searched("text", [prompt |-> prompt, basis |-> basis, paging |-> paging],
                             Response(Get(SearchBasisParams(basis)), None, "", <<>>),
                             None, <<>>, <<>>)
       ELSE \E found \in IndexAnswers(paging.count) :
              last' = Searched("text", [prompt |-> prompt, basis |-> basis, paging |-> paging],
                               Response(200, None, "",
                                        <<IF basis = "vision" THEN "get_text_vector"
                                          ELSE "get_bert_vector", "querySearch">>),
                               Query("querySearch", getVectorByBasis(basis), paging.count,
                                     paging.skip, ""),
                               found, found)
    /\ UNCHANGED <<index, files, queue, cfg, pending>>

\* lines 60-70: Image.open raises on bytes that are no image
imageSearch(image, paging) ==
    /\ IF ~Decodable(image)
       THEN last' = Searched("image", [image |-> image, paging |-> paging],
                             Response(500, None, "UnidentifiedImageError", <<"Image.open">>),
                             None, <<>>, <<>>)
       ELSE \E found \in IndexAnswers(paging.count) :
              last' = Searched("image", [image |-> image, paging |-> paging],
                               Response(200, None, "",
                                        <<"Image.open", "get_image_vector", "querySearch">>),
                               Query("querySearch", "image_vector", paging.count,
                                     paging.skip, ""),
                               found, found)
    /\ UNCHANGED <<index, files, queue, cfg, pending>>

\* lines 73-86
similarWith(id, basis, paging) ==
    /\ IF SearchBasisParams(basis) # None
       THEN last' = Searched("similar", [id |-> id, basis |-> basis, paging |-> paging],
                             Response(Get(SearchBasisParams(basis)), None, "", <<>>),
                             None, <<>>, <<>>)
       ELSE \E found \in IndexAnswers(paging.count) :
              last' = Searched("similar", [id |-> id, basis |-> basis, paging |-> paging],
                               Response(200, None, "", <<"querySimilar">>),
                               Query("querySimilar", getVectorByBasis(basis), paging.count,
                                     paging.skip, ""),
                               found, found)
    /\ UNCHANGED <<index, files, queue, cfg, pending>>

\* AdvancedSearchModel.validate_combined: a combined search needs both
\* combined_priority and extra_prompt
validate_combined(model, basis) ==
    IF basis = "combined" /\ (model.combined_priority = None \/ model.extra_prompt = None)
    THEN Some(422)
    ELSE None

\* the text encoder of each string of a criteria list, in order
Encoders(encoder, criteria) == [i \in 1..Len(criteria) |-> encoder]

\* the encoder that embeds the extra prompt with the encoder of the criteria
ExtraPromptEncoder_aligned(model) ==
    IF model.combined_priority = Some("ocr") THEN "get_bert_vector" ELSE "get_text_vector"

\* lines 130-132: the encoder calculate_and_sort_by_combined_scores embeds the
\* extra prompt with
ExtraPromptEncoder(model) ==
    IF model.combined_priority = Some("ocr") THEN "get_text_vector" ELSE "get_bert_vector"

\* lines 130-132: the vector of the extra prompt
ExtraPromptVector(model) ==
    IF ExtraPromptEncoder(model) = "get_text_vector"
    THEN get_text_vector(Get(model.extra_prompt))
    ELSE get_bert_vector(Get(model.extra_prompt))

\* lines 135-137: the score of a result is multiplied by the cosine of its
\* image vector, or of its text vector when it has no image vector, to the
\* vector of the extra prompt
Rescored(itm, extra_prompt_vector) ==
    LET extra_vector == IF itm.image_vector # None THEN Get(itm.image_vector)
                        ELSE Get(itm.text_contain_vector)
        similar_score == calculate_vectors_cosine(extra_vector, extra_prompt_vector)
    IN  [itm EXCEPT !.score = Times(similar_score, itm.score)]

\* list.sort(key=score, reverse=True): a stable sort, highest score first.
\* InsertByScore puts itm behind every result whose score is not lower.
RECURSIVE InsertByScore(_, _)
InsertByScore(sorted, itm) ==
    IF sorted = <<>> THEN <<itm>>
    ELSE IF Head(sorted).score >= itm.score
    THEN <<Head(sorted)>> \o InsertByScore(Tail(sorted), itm)
    ELSE <<itm>> \o sorted

RECURSIVE SortInto(_, _)
SortInto(sorted, rest) ==
    IF rest = <<>> THEN sorted
    ELSE SortInto(InsertByScore(sorted, Head(rest)), Tail(rest))

SortByScore(result) == SortInto(<<>>, result)

\* the rescoring that leaves the results in the order of the index
calculate_and_sort_by_combined_scores_unsorted(result, model) ==
    [i \in DOMAIN result |-> Rescored(result[i], ExtraPromptVector(model))]

\* the rescoring that sorts the new scores and leaves the records where they
\* are
calculate_and_sort_by_combined_scores_scoresOnly(result, model) ==
    LET sorted == SortByScore([i \in DOMAIN result |->
                                 Rescored(result[i], ExtraPromptVector(model))])
    IN  [i \in DOMAIN result |-> [result[i] EXCEPT !.score = sorted[i].score]]

\* lines 128-141
calculate_and_sort_by_combined_scores(result, model) ==
    SortByScore([i \in DOMAIN result |-> Rescored(result[i], ExtraPromptVector(model))])

\* lines 98-112: the criteria are embedded, the index queried and the results
\* of a combined search rescored
AdvancedQuery(model, basis, paging, found) ==
    LET current_basis == IF basis = "combined" THEN Get(model.combined_priority)
                         ELSE basis
        encoder == IF current_basis = "ocr" THEN "get_bert_vector"
                   ELSE "get_text_vector"
        embed == Encoders(encoder, model.criteria)
                 \o Encoders(encoder, model.negative_criteria)
    IN  [resp |-> Response(200, None, "",
                           embed \o <<"queryAdvanced">>
                           \o (IF basis = "combined"
                               THEN <<ExtraPromptEncoder(model)>> ELSE <<>>)),
         query |-> Query("queryAdvanced", getVectorByBasis(current_basis),
                         paging.count, paging.skip, model.mode),
         found |-> found,
         result |-> IF basis = "combined"
                    THEN calculate_and_sort_by_combined_scores(found, model)
                    ELSE found]

\* an advanced search that raises HTTPException(status) before any call
Refused(status) ==
    [resp |-> Response(status, None, "", <<>>), query |-> None,
     found |-> <<>>, result |-> <<>>]

\* advancedSearch without the check of the criteria lists
AdvancedOutcome_noEmptyCheck(model, basis, paging, found) ==
    IF SearchBasisParams(basis) # None THEN Refused(Get(SearchBasisParams(basis)))
    ELSE IF validate_combined(model, basis) # None
    THEN Refused(Get(validate_combined(model, basis)))
    ELSE AdvancedQuery(model, basis, paging, found)

\* lines 89-112: the outcome of an advanced search to whose query, if it makes
\* one, the index answers found
AdvancedOutcome(model, basis, paging, found) ==
    IF SearchBasisParams(basis) # None THEN Refused(Get(SearchBasisParams(basis)))
    ELSE IF validate_combined(model, basis) # None
    THEN Refused(Get(validate_combined(model, basis)))
    ELSE IF Len(model.criteria) + Len(model.negative_criteria) = 0
    THEN Refused(422)
    ELSE AdvancedQuery(model, basis, paging, found)

advancedSearch(model, basis, paging) ==
    /\ \E found \in IndexAnswers(paging.count) :
         LET out == AdvancedOutcome(model, basis, paging, found)
         IN  last' = Searched("advanced",
                              [model |-> model, basis |-> basis, paging |-> paging],
                              out.resp, out.query, out.found, out.result)
    /\ UNCHANGED <<index, files, queue, cfg, pending>>

\* lines 115-120: the query is issued without the requested skip
randomPick(paging) ==
    /\ \E found \in IndexAnswers(paging.count) :
         last' = Searched("random", [paging |-> paging],
                          Response(200, None, "", <<"get_random_vector", "querySearch">>),
                          Query("querySearch", "image_vector", paging.count, 0, ""),
                          found, found)
    /\ UNCHANGED <<index, files, queue, cfg, pending>>

\* lines 123-125
recallQuery ==
    /\ Ready
    /\ last' = Searched("recall", <<>>,
                        Response(500, None, "NotImplementedError", <<>>),
                        None, <<>>, <<>>)
    /\ UNCHANGED <<index, files, queue, cfg, pending>>

TextSearch ==
    Ready /\ \E prompt \in Prompts, basis \in SearchBasisEnum, paging \in PagingParams :
        textSearch(prompt, basis, paging)

ImageSearch == Ready /\ \E image \in Bytes, paging \in PagingParams : imageSearch(image, paging)

SimilarWith ==
    Ready /\ \E id \in Ids, basis \in SearchBasisEnum, paging \in PagingParams :
        similarWith(id, basis, paging)

AdvancedSearch ==
    Ready /\ \E model \in AdvancedSearchModels, basis \in SearchBasisEnum, paging \in PagingParams :
        advancedSearch(model, basis, paging)

RandomPick == Ready /\ \E paging \in PagingParams : randomPick(paging)

----------------------------------------------------------------------------
(* Requests in flight.  A handler runs until it awaits a collaborator; other  *)
(* requests run while it waits.  An upload waits between the answer of the    *)
(* duplicate check and the hand-over to the upload service, an update between *)
(* the retrieval of the point and its write.                                   *)

\* the requests in flight without the t-th
Remove(tasks, t) == SubSeq(tasks, 1, t - 1) \o SubSeq(tasks, t + 1, Len(tasks))

\* admin.py lines 94-120: the upload up to the record it is going to enqueue;
\* an upload that is refused answers at once
UploadBegin(image_file, model) ==
    LET out == UploadOutcome(index, image_file, model)
    IN  /\ IF out.enqueue = None
           THEN /\ last' = Served("upload", image_file, out.resp)
                /\ pending' = pending
           ELSE /\ Len(pending) < MaxTasks
                /\ pending' = Append(pending, [op |-> "upload", req |-> image_file,
                                               model |-> model, out |-> out])
                /\ last' = last
        /\ UNCHANGED <<index, files, queue, cfg>>

\* admin.py lines 122-123: the record is enqueued and the upload answered
UploadFinish(t) ==
    /\ pending[t].op = "upload"
    /\ Len(queue) < MaxQueue
    /\ queue' = enqueue(queue, Get(pending[t].out.enqueue), pending[t].model.skip_ocr)
    /\ last' = Served("upload", pending[t].req, pending[t].out.resp)
    /\ pending' = Remove(pending, t)
    /\ UNCHANGED <<index, files, cfg>>

\* admin.py lines 62-67: the empty check and the retrieval of the point; an
\* update that is refused answers at once
UpdateBegin(image_id, model) ==
    /\ IF empty(model) \/ PointNotFound(index, image_id)
       THEN /\ last' = Served("update_opt", [id |-> image_id, model |-> model],
                              UpdateOutcome(index, image_id, model).resp)
            /\ pending' = pending
       ELSE /\ Len(pending) < MaxTasks
            /\ pending' = Append(pending, [op |-> "update_opt",
                                           req |-> [id |-> image_id, model |-> model],
                                           point |-> index[image_id]])
            /\ last' = last
    /\ UNCHANGED <<index, files, queue, cfg>>

\* admin.py lines 69-77: the point retrieved is changed and written
UpdateFinish(t) ==
    /\ pending[t].op = "update_opt"
    /\ LET out == WritePoint(index, pending[t].req.id, pending[t].point,
                             pending[t].req.model)
       IN  /\ index' = out.index
           /\ last' = Served("update_opt", pending[t].req, out.resp)
    /\ pending' = Remove(pending, t)
    /\ UNCHANGED <<files, queue, cfg>>

\* The uploads in flight are of images that are not stored locally: the
\* storage backend plays no part in the interleavings.
RemoteModels == {model \in UploadModels : ~model.local}

BeginUpload ==
    Ready /\ \E image_file \in UploadFiles, model \in RemoteModels :
                UploadBegin(image_file, model)

FinishUpload == Ready /\ \E t \in DOMAIN pending : UploadFinish(t)

BeginUpdate ==
    Ready /\ \E image_id \in Ids, model \in UpdateModels : UpdateBegin(image_id, model)

FinishUpdate == Ready /\ \E t \in DOMAIN pending : UpdateFinish(t)

----------------------------------------------------------------------------
(* The service *)

\* The service starts with an empty index, storage and queue; its
\* configuration is read once and never changes.
Start(configs) ==
    /\ index = << >>
    /\ files = {}
    /\ queue = <<>>
    /\ cfg \in configs
    /\ last = NoRequest
    /\ pending = NoTasks

\* The admin controller reads config.storage.method.enabled only.
Init == Start([ocr_enable : {TRUE}, storage_enabled : BOOLEAN])

Next ==
    \/ Upload
    \/ Delete
    \/ Update
    \/ ServerInfo
    \/ Return
    \/ IndexWorker

Spec == Init /\ [][Next]_vars

\* The indexing worker is a task of its own that keeps taking entries off the
\* queue as long as there are any.
FairSpec == Spec /\ WF_vars(IndexWorker)

\* The admin controller with requests in flight: uploads and updates
\* interleave with each other, with deletes and with the indexing worker.
ConcNext ==
    \/ BeginUpload
    \/ FinishUpload
    \/ BeginUpdate
    \/ FinishUpdate
    \/ Delete
    \/ Return
    \/ IndexWorker

ConcSpec == Init /\ [][ConcNext]_vars

\* The search controller, under every configuration
SearchInit == Start([ocr_enable : BOOLEAN, storage_enabled : BOOLEAN])

SearchNext ==
    \/ TextSearch
    \/ ImageSearch
    \/ SimilarWith
    \/ AdvancedSearch
    \/ RandomPick
    \/ recallQuery
    \/ Return

SearchSpec == SearchInit /\ [][SearchNext]_vars

----------------------------------------------------------------------------
(* Properties.  A step that leaves last.op = "upload" is the serving of the  *)
(* upload request last'.req: the unprimed variables are the state the       *)
(* request found, the primed ones the state it left.                        *)

\* response resp was reached with the collaborator call fn made
Called(resp, fn) == \E i \in DOMAIN resp.calls : resp.calls[i] = fn

\* the declared content type is one of the image types, whatever its case
DeclaresImageType(image_file) ==
    Lower(image_file.content_type) \in {"image/jpeg", "image/png", "image/webp", "image/gif"}

\* the file name ends in an image extension, whatever its case
NamedAsImage(image_file) ==
    /\ image_file.filename # ""
    /\ Lower(Suffix(image_file.filename)) \in ImageExtensions

FormatResolves(image_file) == DeclaresImageType(image_file) \/ NamedAsImage(image_file)

\* the ids of the records waiting in queue q
Queued(q) == {q[i].data.id : i \in DOMAIN q}

\* an upload of decodable bytes with a resolving format, not in the index, is
\* accepted: it answers 200 with the id of the bytes and enqueues the record
FirstUploadAccepted ==
    ( /\ last'.op = "upload"
      /\ FormatResolves(last'.req) /\ Decodable(last'.req.bytes)
      /\ generate_uuid(last'.req.bytes) \notin DOMAIN index )
    => ( /\ last'.status = 200
         /\ last'.id = Some(generate_uuid(last'.req.bytes))
         /\ Len(queue') = Len(queue) + 1
         /\ queue'[Len(queue')].data.id = generate_uuid(last'.req.bytes) )

C2_DuplicateFirst ==
    [][( /\ last'.op = "upload"
         /\ generate_uuid(last'.req.bytes) \in DOMAIN index )
       => ( /\ last'.status = 409
            /\ last'.id = Some(generate_uuid(last'.req.bytes)) )]_vars

\* C2 (amended): an upload of bytes whose id is in the index fails with 409
\* naming that id, before any decoding and with nothing enqueued, when its
\* format resolves; it fails with 415, the index not asked, when neither its
\* content type nor its file name resolves: the format is resolved before the
\* duplicate check.
C2_FormatThenDuplicate ==
    [][( /\ last'.op = "upload"
         /\ generate_uuid(last'.req.bytes) \in DOMAIN index )
       => IF FormatResolves(last'.req)
          THEN /\ last'.status = 409
               /\ last'.id = Some(generate_uuid(last'.req.bytes))
               /\ ~Called(last', "Image.open")
               /\ queue' = queue /\ index' = index /\ files' = files
          ELSE /\ last'.status = 415
               /\ ~Called(last', "validate_ids")]_vars

C2_Witness ==
    /\ last.op = "upload" /\ last.status = 415
    /\ generate_uuid(last.req.bytes) \in DOMAIN index

\* C3: an upload of bytes that are not in the index fails with 415, no decode
\* attempted, when neither its content type nor its file name's extension is
\* an image's, and with 400 when its format resolves and its bytes are no image.
C3_FormatThenDecode ==
    [][( /\ last'.op = "upload"
         /\ generate_uuid(last'.req.bytes) \notin DOMAIN index )
       => /\ (~DeclaresImageType(last'.req) /\ ~NamedAsImage(last'.req))
               => (last'.status = 415 /\ ~Called(last', "Image.open"))
          /\ (FormatResolves(last'.req) /\ ~Decodable(last'.req.bytes))
               => (last'.status = 400 /\ Called(last', "Image.open"))]_vars

C3_Witness ==
    /\ last.op = "upload" /\ last.status = 400
    /\ last.req.filename = "a.GIF" /\ last.req.content_type = "text/plain"
    /\ ~Decodable(last.req.bytes)

\* C4: an update_opt whose body sets neither starred nor categories fails with
\* 422 and writes nothing to the index, whether or not the id has a record.
C4_EmptyUpdate ==
    [][( /\ last'.op = "update_opt"
         /\ last'.req.model.starred = None /\ last'.req.model.categories = None )
       => ( /\ last'.status = 422
            /\ index' = index
            /\ ~Called(last', "updatePayload") )]_vars

C4_Witness ==
    /\ last.op = "update_opt" /\ last.status = 422
    /\ last.req.id \in DOMAIN index

\* SearchSpec: the basis of the search request served last is one the
\* configuration accepts
BasisAccepted(basis) == cfg.ocr_enable \/ basis = "vision"

\* C5: with OCR off, a text, similar or advanced search on basis ocr or
\* combined fails with 400 before any embedding call and any index query;
\* basis vision is never refused for the configuration.
C5_BasisRefused ==
    last.op \in {"text", "similar", "advanced"}
    => /\ (~cfg.ocr_enable /\ last.req.basis \in {"ocr", "combined"})
            => (last.status = 400 /\ last.calls = <<>> /\ last.query = None)
       /\ last.req.basis = "vision" => last.status # 400

C5_Witness ==
    /\ last.op = "similar" /\ last.status = 400
    /\ last.req.basis = "combined" /\ ~cfg.ocr_enable

\* both criteria lists of an advanced search are empty
NoCriteria(model) == model.criteria = <<>> /\ model.negative_criteria = <<>>

\* C6 (as stated): an advanced search with both criteria lists empty fails
\* with 422, no embedding call and no index query made, for every basis, mode,
\* combined_priority and extra_prompt.
C6_EmptyAlways422 ==
    (last.op = "advanced" /\ NoCriteria(last.req.model))
    => (last.status = 422 /\ last.calls = <<>> /\ last.query = None)

\* C6 (amended): an advanced search with both criteria lists empty makes no
\* embedding call and no index query, and fails with 422 for every mode,
\* combined_priority and extra_prompt and every basis the configuration
\* accepts; on basis ocr or combined with OCR off it fails with 400 instead.
C6_EmptyRefused ==
    (last.op = "advanced" /\ NoCriteria(last.req.model))
    => /\ last.calls = <<>> /\ last.query = None
       /\ last.status = IF BasisAccepted(last.req.basis) THEN 422 ELSE 400

C6_Witness ==
    /\ last.op = "advanced" /\ last.status = 422
    /\ NoCriteria(last.req.model)
    /\ last.req.basis = "combined" /\ last.req.model.combined_priority # None
    /\ last.req.model.extra_prompt # None

\* C7: the delete of a local record, with storage on, exactly one stored file
\* named after the id and no storage call failing, leaves the index without
\* the id and the file in _deleted under its name, no longer at its place.
C7_SoftDelete ==
    [][( /\ last'.op = "delete" /\ last'.req.fault = "none"
         /\ last'.req.id \in DOMAIN index
         /\ index[last'.req.id].local /\ cfg.storage_enabled
         /\ Cardinality(list_files(files, "", last'.req.id)) = 1 )
       => \A f \in list_files(files, "", last'.req.id) :
            /\ last'.status = 200
            /\ last'.req.id \notin DOMAIN index'
            /\ f \notin files'
            /\ Path("_deleted", f.stem, f.ext) \in files'
            /\ \A g \in files \ {f} : g.dir # "thumbnails" => g \in files']_vars

C7_Witness ==
    /\ last.op = "delete" /\ last.status = 200 /\ Called(last, "move")
    /\ last.req.id \notin DOMAIN index
    /\ list_files(files, "", last.req.id) = {}
    /\ \E f \in files : f.dir = "_deleted" /\ f.stem = last.req.id

\* C8: the delete of a local record, with storage on and two or more stored
\* files named after the id, raises an error and moves or deletes no file.
C8_AmbiguousFiles ==
    [][( /\ last'.op = "delete"
         /\ last'.req.id \in DOMAIN index
         /\ index[last'.req.id].local /\ cfg.storage_enabled
         /\ Cardinality(list_files(files, "", last'.req.id)) >= 2 )
       => ( /\ last'.status # 200 /\ last'.error # ""
            /\ files' = files
            /\ ~Called(last', "move") /\ ~Called(last', "delete") )]_vars

C8_Witness ==
    /\ last.op = "delete" /\ last.error = "AssertionError"
    /\ Cardinality(list_files(files, "", last.req.id)) >= 2

\* C9: a delete, and an update_opt that sets a field, of an id without a
\* record fail with 404 and change neither index nor storage.
C9_Absent ==
    [][( \/ /\ last'.op = "delete"
            /\ last'.req.id \notin DOMAIN index
         \/ /\ last'.op = "update_opt"
            /\ last'.req.id \notin DOMAIN index
            /\ last'.req.model.starred # None \/ last'.req.model.categories # None )
       => ( /\ last'.status = 404
            /\ index' = index /\ files' = files
            /\ ~Called(last', "deleteItems") /\ ~Called(last', "updatePayload")
            /\ ~Called(last', "move") /\ ~Called(last', "delete") )]_vars

C9_Witness ==
    /\ last.op = "delete" /\ last.status = 404
    /\ last.req.id = generate_uuid("img")

\* C10: an accepted upload leaves the image count as it is; the indexing
\* worker, when it takes the record of id X off the queue, makes X retrievable
\* and the count one higher than before the upload (X was not there then: if
\* it still is not, the count goes up by exactly one); server_info reports that
\* count; and with a fair worker the id of every accepted upload gets into the
\* index.
C10_Indexed ==
    /\ [][last'.op = "upload" => index' = index]_vars
    /\ [][Len(queue') < Len(queue) =>
            LET X == Head(queue).data.id
            IN  /\ X \in DOMAIN index'
                /\ get_counts(index') =
                     get_counts(index) + (IF X \in DOMAIN index THEN 0 ELSE 1)]_vars
    /\ [][last'.op = "server_info" => last'.info[1] = Cardinality(DOMAIN index)]_vars
    /\ \A X \in Ids :
         (last.op = "upload" /\ last.status = 200 /\ last.id = Some(X))
            ~> (X \in DOMAIN index)

C10_Witness ==
    /\ last.op = "server_info" /\ last.info = <<1, 0>>
    /\ generate_uuid("img") \in DOMAIN index

----------------------------------------------------------------------------
(* Properties of delete and upload *)

\* the calls a delete makes to the storage backend
StorageCalls == {"list_files", "move", "is_exist", "delete"}

\* C13: a delete issues every storage call after deleteItems; once it has
\* issued a storage call, or changed a file, the index holds no entry of the
\* id, whether the delete went through or a storage call (or the assertion)
\* raised.
C13_IndexFirst ==
    [][last'.op = "delete" =>
         /\ \A i \in DOMAIN last'.calls :
              last'.calls[i] \in StorageCalls
                => \E j \in 1 .. (i - 1) : last'.calls[j] = "deleteItems"
         /\ ( \/ files' # files
              \/ \E i \in DOMAIN last'.calls : last'.calls[i] \in StorageCalls )
            => last'.req.id \notin DOMAIN index']_vars

\* a delete moved the original, failed at the thumbnail, and the entry is gone
C13_Witness ==
    /\ last.op = "delete" /\ last.error = "StorageError" /\ last.req.fault = "is_exist"
    /\ Called(last, "move")
    /\ last.req.id \notin DOMAIN index
    /\ \E f \in files : f.dir = "_deleted" /\ f.stem = last.req.id

C14_MissingTolerated ==
    /\ last.op = "delete" /\ last.status = 200
    /\ Called(last, "is_exist") /\ ~Called(last, "delete")

\* C20: an upload that fails with 415, 409 or 400 enqueues nothing and changes
\* neither index nor storage; an upload that succeeds had a resolving format,
\* an id not in the index and decodable bytes, and has put its record at the
\* end of the queue, once.
C20_EnqueueLast ==
    [][last'.op = "upload" =>
         /\ last'.status \in {415, 409, 400, 200}
         /\ index' = index /\ files' = files
         /\ last'.status # 200
              => (queue' = queue /\ ~Called(last', "upload_image"))
         /\ last'.status = 200
              => /\ FormatResolves(last'.req) /\ Decodable(last'.req.bytes)
                 /\ generate_uuid(last'.req.bytes) \notin DOMAIN index
                 /\ Len(queue') = Len(queue) + 1
                 /\ SubSeq(queue', 1, Len(queue)) = queue
                 /\ queue'[Len(queue')].data.id = generate_uuid(last'.req.bytes)
                 /\ Cardinality({i \in DOMAIN last'.calls :
                                    last'.calls[i] = "upload_image"}) = 1
                 /\ last'.calls[Len(last'.calls)] = "upload_image"]_vars

\* an upload was refused as undecodable while a record waits in the queue
C20_Witness ==
    /\ last.op = "upload" /\ last.status = 400
    /\ Len(queue) = 1

----------------------------------------------------------------------------
(* Properties of requests in flight (ConcSpec).  A step that takes a request *)
(* out of `pending` is the last step of that request.                         *)

\* the step answers a request that was in flight
Finishes(op) == last'.op = op /\ Len(pending') < Len(pending)

\* C15: the write of an update leaves every field that is absent from its
\* request at the value the index holds when the write is made, whatever other
\* updates of the id were made while the request was in flight.
C15_AbsentFieldsKept ==
    [][( /\ Finishes("update_opt")
         /\ last'.req.id \in DOMAIN index )
       => /\ last'.req.id \in DOMAIN index'
          /\ last'.req.model.starred = None
               => index'[last'.req.id].starred = index[last'.req.id].starred
          /\ last'.req.model.categories = None
               => index'[last'.req.id].categories = index[last'.req.id].categories]_vars

\* C16: an upload gets 409 only for an id that is in the index when it checks:
\* neither a queued record nor an upload in flight of the same id refuses it;
\* and an upload that passed its checks is enqueued and answered 200 with its
\* id, whatever was enqueued while it was in flight.
C16_NotSerialized ==
    [][/\ (last'.op = "upload" /\ last'.status = 409)
            => generate_uuid(last'.req.bytes) \in DOMAIN index
       /\ (last'.op = "upload" /\ FormatResolves(last'.req)
             /\ Decodable(last'.req.bytes) /\ ~Finishes("upload"))
            => last'.status = 409
       /\ Finishes("upload")
            => /\ last'.status = 200
               /\ last'.id = Some(generate_uuid(last'.req.bytes))
               /\ Len(queue') = Len(queue) + 1
               /\ queue'[Len(queue')].data.id = generate_uuid(last'.req.bytes)]_vars

\* an upload was answered 200 and enqueued while another upload of the same id,
\* which had passed its duplicate check before, is still in flight; the record
\* of neither is in the index
C16_Witness ==
    /\ last.op = "upload" /\ last.status = 200
    /\ \E i \in DOMAIN queue : Some(queue[i].data.id) = last.id
    /\ \E t \in DOMAIN pending :
         /\ pending[t].op = "upload"
         /\ pending[t].out.resp.status = 200
         /\ pending[t].out.resp.id = last.id
    /\ Get(last.id) \notin DOMAIN index

\* C17: an update that found its record issues its payload write and answers
\* success whatever happened to the entry while it was in flight; when a
\* delete removed the entry, the write goes to the deleted entry and the index
\* stays without it.
C17_WriteAfterDelete ==
    [][Finishes("update_opt")
       => /\ last'.status = 200
          /\ Called(last', "updatePayload")
          /\ last'.req.id \notin DOMAIN index => index' = index]_vars

\* an update answered success for an id that a delete removed after the update
\* had retrieved it
C17_Witness ==
    /\ last.op = "update_opt" /\ last.status = 200
    /\ Called(last, "updatePayload")
    /\ last.req.id \notin DOMAIN index
    /\ \A i \in DOMAIN queue : queue[i].data.id # last.req.id

----------------------------------------------------------------------------
(* Properties of the combined rescoring *)

\* the request served last is a combined advanced search that was answered
Rescoring == last.op = "advanced" /\ last.status = 200 /\ last.req.basis = "combined"

\* the cosine of a result's comparison embedding (its image embedding, else
\* its text embedding) to the vector of the extra prompt
Similarity(itm) ==
    calculate_vectors_cosine(IF itm.image_vector # None THEN Get(itm.image_vector)
                             ELSE Get(itm.text_contain_vector),
                             ExtraPromptVector(last.req.model))

\* the place of the record of id k in a result sequence
PlaceOf(result, k) == CHOOSE i \in DOMAIN result : result[i].id = k

\* every returned score is similarity times the score the index gave the
\* record, and the sequence is in descending order of the new scores, records
\* of equal new score in the order the index returned them (ids are the
\* places in the index's answer)
RescoredAndStablySorted ==
    /\ \A i \in DOMAIN last.result :
         \E j \in DOMAIN last.found :
            /\ last.found[j].id = last.result[i].id
            /\ last.result[i].score = Times(Similarity(last.found[j]), last.found[j].score)
    /\ \A i, j \in DOMAIN last.result :
         i < j => \/ last.result[i].score > last.result[j].score
                  \/ /\ last.result[i].score = last.result[j].score
                     /\ last.result[i].id < last.result[j].id

\* C11 (as stated): a combined advanced search returns every score as
\* similarity times original score, in descending order of the new score, ties
\* in the original order; and of two results with equal original score the one
\* with the higher positive similarity has the strictly greater final score and
\* comes first.
C11_HigherSimilarityFirst ==
    Rescoring =>
        /\ RescoredAndStablySorted
        /\ \A a, b \in DOMAIN last.found :
             ( /\ last.found[a].score = last.found[b].score
               /\ Similarity(last.found[a]) > Similarity(last.found[b])
               /\ Similarity(last.found[b]) > 0 )
             => LET pa == PlaceOf(last.result, last.found[a].id)
                    pb == PlaceOf(last.result, last.found[b].id)
                IN  last.result[pa].score > last.result[pb].score /\ pa < pb

\* C11 (amended): the same, the last part for two results of equal POSITIVE
\* original score.
C11_RescoredSorted ==
    Rescoring =>
        /\ RescoredAndStablySorted
        /\ \A a, b \in DOMAIN last.found :
             ( /\ last.found[a].score = last.found[b].score
               /\ last.found[a].score > 0
               /\ Similarity(last.found[a]) > Similarity(last.found[b])
               /\ Similarity(last.found[b]) > 0 )
             => LET pa == PlaceOf(last.result, last.found[a].id)
                    pb == PlaceOf(last.result, last.found[b].id)
                IN  last.result[pa].score > last.result[pb].score /\ pa < pb

\* three results of original score 1.0: the second has the highest similarity
\* and is returned first, the other two tie and keep their order
C11_Witness ==
    /\ Rescoring /\ Len(last.found) = 3
    /\ \A i \in 1 .. 3 : last.found[i].score = 2
    /\ Similarity(last.found[2]) = 2
    /\ Similarity(last.found[1]) = 1 /\ Similarity(last.found[3]) = 1
    /\ last.result[1].id = 2 /\ last.result[2].id = 1 /\ last.result[3].id = 3

\* the calls a combined advanced search made after its index query
AfterQuery(calls) ==
    LET k == CHOOSE i \in DOMAIN calls : calls[i] = "queryAdvanced"
    IN  SubSeq(calls, k + 1, Len(calls))

\* the text encoder the advanced query embeds the criteria with
CriteriaEncoder(model) ==
    IF model.combined_priority = Some("ocr") THEN "get_bert_vector" ELSE "get_text_vector"

\* C12 (as stated): the rescoring embeds the extra prompt exactly once, with
\* the encoder aligned to combined_priority, the one the criteria of the same
\* request are embedded with.
C12_AlignedEncoder ==
    Rescoring =>
        /\ AfterQuery(last.calls) = <<CriteriaEncoder(last.req.model)>>
        /\ last.calls[1] = CriteriaEncoder(last.req.model)

\* C12 (amended): the rescoring embeds the extra prompt exactly once, with the
\* encoder of the other basis: the vision-aligned encoder when
\* combined_priority is ocr, the OCR-aligned one when it is vision; the
\* criteria of the same request are embedded with the encoder aligned to
\* combined_priority.
C12_OtherEncoder ==
    Rescoring =>
        /\ AfterQuery(last.calls) =
             <<IF last.req.model.combined_priority = Some("ocr")
               THEN "get_text_vector" ELSE "get_bert_vector">>
        /\ last.calls[1] = CriteriaEncoder(last.req.model)
        /\ AfterQuery(last.calls)[1] # last.calls[1]

C12_Witness ==
    /\ Rescoring /\ last.req.model.combined_priority = Some("ocr")
    /\ last.calls[1] = "get_bert_vector"
    /\ AfterQuery(last.calls) = <<"get_text_vector">>

\* C18: every search that accepts paging and is answered has queried the index
\* with top_k the requested count and skip the requested skip, and returns at
\* most count results.
C18_PagingPassed ==
    (last.op \in {"text", "image", "similar", "advanced", "random"} /\ last.status = 200)
    => /\ Get(last.query).top_k = last.req.paging.count
       /\ Get(last.query).skip = last.req.paging.skip
       /\ Len(last.result) <= last.req.paging.count

\* the ids of a result sequence, with the score each is paired with
Pairs(result) == {<<result[i].id, result[i].score>> : i \in DOMAIN result}

\* C19: the rescoring returns the records the index returned, each once: the
\* same length, the same ids, each paired with the score computed for its own
\* record and with its own embeddings; no results stay no results.
C19_Permutation ==
    Rescoring =>
        /\ Len(last.result) = Len(last.found)
        /\ \A j \in DOMAIN last.found :
             Cardinality({i \in DOMAIN last.result :
                             last.result[i].id = last.found[j].id}) = 1
        /\ Pairs(last.result) =
             {<<last.found[j].id, Times(Similarity(last.found[j]), last.found[j].score)>> :
                j \in DOMAIN last.found}
        /\ \A i \in DOMAIN last.result :
             /\ last.result[i].image_vector = last.found[last.result[i].id].image_vector
             /\ last.result[i].text_contain_vector =
                  last.found[last.result[i].id].text_contain_vector
        /\ last.found = <<>> => last.result = <<>>

\* three records come back in another order, with scores that differ
C19_Witness ==
    /\ Rescoring /\ Len(last.found) = 3
    /\ last.result[1].id = 3 /\ last.result[2].id = 2 /\ last.result[3].id = 1
    /\ last.result[1].score > last.result[2].score
    /\ last.result[2].score > last.result[3].score

====
